---- MODULE Spec2Model ----
(***************************************************************************)
(* Model of the volumio-tui session loop (src/main.go): the bubbletea      *)
(* model struct, the commands it starts (each runs in its own goroutine    *)
(* and reports back with a message) and model.Update, which handles one    *)
(* message at a time.                                                      *)
(*                                                                         *)
(* Texts (the host, the edit buffer) are sequences of tokens: the token    *)
(* UrlTok stands for an address with scheme and host ("http://volumio"),   *)
(* every other token is the rune of one key.                               *)
(***************************************************************************)
EXTENDS Integers, Sequences, FiniteSets, TLC

\* ---------------------------------------------------------------- bounds
\* events from outside the program: key presses and ticks of the poll ticker
MaxEvents == 3
\* a key is pressed only while fewer commands than this are pending
MaxPending == 2
\* SetVolume is tried on every volume in -VolSpan .. 100 + VolSpan
VolSpan == 60

\* ------------------------------------------------------- program values
VolMin == 0
VolMax == 100
VolStep == 5

\* an address with scheme and host, e.g. "http://volumio"
UrlTok == "http://volumio"
\* the keys that type a rune into the text input while editing
Runes == {" ", "r", "q", "e"}
\* the token a rune leaves in the text: the blank, or "x" for a rune that is
\* not blank (the program does not tell those apart)
RuneTok(k) == IF k = " " THEN " " ELSE "x"
\* keys delivered as tea.KeyMsg
Keys == Runes \cup {"enter", "esc", "up", "down", "backspace"}
\* the hosts the program is started with: one with a host part, one without
InitHosts == {<<UrlTok>>, <<"x">>}

\* the nil *volumioClient
NilClient == <<>>
\* the nil error
NoErr == [type |-> "nil", name |-> "", code |-> 0]
\* the zero value of state
ZeroState == [Status |-> "", Volume |-> 0]
\* snapshots the player reports (volume is reported as is, in or out of 0..100)
Snapshots == {[Status |-> "play", Volume |-> 98], [Status |-> "pause", Volume |-> 150]}
\* the statuses of the responses that are not 2xx
BadStatuses == {500}

VARIABLES
  client,      \* m.client: the base URL of the client, NilClient when nil
  hostInput,   \* m.hostInput.Value(): the edit buffer
  host,        \* m.host
  st,          \* m.st
  err,         \* m.err
  loading,     \* m.loading
  pollTicker,  \* m.pollTicker: "nil", "running" or "stopped"
  tickPending, \* a tick waits in m.pollTicker.C (a channel of capacity 1)
  editing,     \* m.editing
  connected,   \* m.connected
  loop,        \* the event loop: "running" or "done" (after tea.QuitMsg)
  ops,         \* the commands started and not yet handled, in the order they were started
  nEvents,     \* key presses and ticks so far
  lastKey,     \* the key pressed, while its press is the last message the loop took; else ""
  apiVol,      \* SetVolume called directly: the argument
  apiSent,     \* SetVolume called directly: the volume put in the request, -1 before the call
  apiCmd,      \* a command called directly: its name and the status of the response
  apiErr,      \* a command called directly: the error returned
  callArg,     \* probeHost, getDefaultHost or discoverVolumio called directly: what it is given
  callRes      \* and what it returns, NoReturn before it does

vars == <<client, hostInput, host, st, err, loading, pollTicker, tickPending,
          editing, connected, loop, ops, nEvents, lastKey, apiVol,
          apiSent, apiCmd, apiErr, callArg, callRes>>

modelVars == <<client, hostInput, host, st, err, loading, pollTicker, tickPending,
               editing, connected, loop, ops, nEvents, lastKey>>

apiVars == <<apiVol, apiSent, apiCmd, apiErr, callArg, callRes>>
\* no command called directly, and its error while the call has not returned
NoCmd == [name |-> "", status |-> 0]
NoReturn == [type |-> "none", name |-> "", code |-> 0]

\* ------------------------------------------------------- pure functions

RECURSIVE TrimLeft(_)
\* strings.TrimSpace, the leading part
TrimLeft(s) == IF s # <<>> /\ Head(s) = " " THEN TrimLeft(Tail(s)) ELSE s

RECURSIVE TrimRight(_)
\* strings.TrimSpace, the trailing part
TrimRight(s) ==
  IF s # <<>> /\ s[Len(s)] = " " THEN TrimRight(SubSeq(s, 1, Len(s) - 1)) ELSE s

TrimSpace(s) == TrimRight(TrimLeft(s))

\* url.Parse(base) succeeds and finds a host: the text starts with scheme and
\* host, and no blank follows in the host
HasHost(base) ==
  /\ base # <<>>
  /\ base[1] = UrlTok
  /\ \A i \in 2..Len(base) : base[i] # " "

\* newVolumioClient: the client's baseURL, NilClient when it returns an error
newVolumioClient(base) == IF HasHost(base) THEN base ELSE NilClient

\* the error newVolumioClient returns
UrlErr == [type |-> "url", name |-> "", code |-> 0]
\* the error connectCmd wraps a failed probe in
ConnectErr == [type |-> "connect", name |-> "", code |-> 0]
\* http.Client.Do fails: no connection, or the timeout of 5 s
TransportErr(name) == [type |-> "transport", name |-> name, code |-> 0]
\* the body of getState does not decode
DecodeErr == [type |-> "decode", name |-> "getState", code |-> 0]
\* fmt.Errorf("command %q failed: status %d"), ("set volume failed: status %d"),
\* ("getState failed: status %d")
StatusErr(name, code) == [type |-> "status", name |-> name, code |-> code]

\* a SetVolume that lacks the upper limit
SetVolumeNoUpper(vol) == IF vol < VolMin THEN VolMin ELSE vol

\* a cmd whose error leaves the command out
cmdUnnamed(command, status) ==
  IF status < 200 \/ status >= 300 THEN StatusErr("", status) ELSE NoErr

\* cmd: the error returned for the status of the response, nil for 2xx
cmd(command, status) ==
  IF status < 200 \/ status >= 300 THEN StatusErr(command, status) ELSE NoErr

\* SetVolume: the error returned for the status of the response, nil for 2xx
SetVolumeStatus(status) ==
  IF status < 200 \/ status >= 300 THEN StatusErr("set volume", status) ELSE NoErr

\* Play, Pause, Stop, Toggle call cmd with their name; SetVolume sends its own
\* request
Commands == {"play", "pause", "stop", "toggle", "volume"}
CommandStatus(name, status) ==
  IF name = "volume" THEN SetVolumeStatus(status) ELSE cmd(name, status)

\* SetVolume: the volume put in the request
SetVolume(vol) ==
  LET v1 == IF vol < VolMin THEN VolMin ELSE vol
  IN  IF v1 > VolMax THEN VolMax ELSE v1

\* a changeVolume that hands the sum on as it is
NewVolNoClamp(cur, delta) == cur + delta

\* changeVolume: the volume handed to SetVolume
NewVol(cur, delta) ==
  LET n == cur + delta
      n1 == IF n < VolMin THEN VolMin ELSE n
  IN  IF n1 > VolMax THEN VolMax ELSE n1

\* ------------------------------------------------------------ commands
\* A started tea.Cmd: its goroutine, then its message on the way to the event
\* loop. stage "run": connectCmd has not probed yet; "w": connectCmd has
\* written the first of its two fields; "msg": the message is on its way (the
\* call of a transport command or of GetState ends with it, and how it ended
\* shows when the loop takes the message). late: a refresh started after this
\* one has been applied already; for a connect, a connect was started after
\* this one.
Op(kind, src, h, name, vol) ==
  [kind |-> kind, src |-> src, host |-> h, name |-> name, vol |-> vol,
   sent |-> -1, stage |-> "msg", ok |-> FALSE, late |-> FALSE]

\* connectCmd(host)
connectCmd(src, h) == <<[Op("connect", src, h, "connect", -1) EXCEPT !.stage = "run"]>>

\* refreshCmd: nil when there is no client
refreshCmd(src) ==
  IF client = NilClient THEN <<>> ELSE <<Op("refresh", src, <<>>, "getState", -1)>>

\* simpleCmd: nil when there is no client; vol is the volume its function
\* hands to SetVolume and sent the volume SetVolume puts in the request, both
\* -1 for the commands that carry none
simpleCmd(name, vol) ==
  IF client = NilClient THEN <<>>
  ELSE <<[Op("cmd", "key", <<>>, name, vol)
            EXCEPT !.sent = IF name = "volume" THEN SetVolume(vol) ELSE -1]>>

\* toggleCmd
toggleCmd == simpleCmd("toggle", -1)

\* changeVolume(delta)
changeVolume(delta) ==
  IF client = NilClient THEN <<>>
  ELSE simpleCmd("volume", NewVol(st.Volume, delta))

\* the step a volume key is bound to in normal mode
DeltaOfKey(k) == IF k = "up" THEN VolStep ELSE -VolStep

\* s without its i-th element
Remove(s, i) == SubSeq(s, 1, i - 1) \o SubSeq(s, i + 1, Len(s))

\* the places of the started commands
Started == 1..Len(ops)

\* s with the marks of where its commands were started wiped: src tells which
\* part of the program started a command only until the loop has handled the
\* next result
Unmarked(s) == [j \in DOMAIN s |-> [s[j] EXCEPT !.src = ""]]

\* ---------------------------------------------------------------- Init
\* initialModel, and Init's batch of connectCmd and startPolling
Init ==
  /\ host \in InitHosts
  /\ hostInput = host
  /\ client = NilClient
  /\ st = ZeroState
  /\ err = NoErr
  /\ loading = FALSE
  /\ pollTicker = "nil"
  /\ tickPending = FALSE
  /\ editing = FALSE
  /\ connected = FALSE
  /\ loop = "running"
  /\ ops = connectCmd("init", host)
  /\ nEvents = 0
  /\ lastKey = ""
  /\ apiVol = 0
  /\ apiSent = -1
  /\ apiCmd = NoCmd
  /\ apiErr = NoReturn
  /\ callArg = <<>>
  /\ callRes = NoReturn

\* ------------------------------------------------- goroutines of commands
\* an event from outside arrives
Event ==
  /\ nEvents < MaxEvents
  /\ nEvents' = nEvents + 1

\* startPolling's goroutine: creates the ticker; its nil message is dropped
StartPolling ==
  /\ pollTicker = "nil"
  /\ pollTicker' = "running"
  /\ UNCHANGED <<client, hostInput, host, st, err, loading, tickPending, editing,
                 connected, loop, ops, nEvents, lastKey, apiVars>>

\* the ticker sends on its channel; a tick is dropped while one waits there
TimerFire ==
  /\ pollTicker = "running"
  /\ ~tickPending
  /\ Event
  /\ tickPending' = TRUE
  /\ UNCHANGED <<client, hostInput, host, st, err, loading, pollTicker, editing,
                 connected, loop, ops, lastKey, apiVars>>

\* connectCmd's goroutine up to its first write: newVolumioClient, probeHost,
\* then m.connected = false (probe failed) or m.client = client (probe succeeded)
ConnectProbe(i) ==
  /\ ops[i].kind = "connect" /\ ops[i].stage = "run"
  /\ LET c == newVolumioClient(ops[i].host) IN
       IF c = NilClient
       THEN /\ ops' = [ops EXCEPT ![i].stage = "msg", ![i].ok = FALSE, ![i].name = "url"]
            /\ UNCHANGED <<client, connected>>
       ELSE \E reachable \in BOOLEAN :
              /\ ops' = [ops EXCEPT ![i].stage = "w", ![i].ok = reachable]
              /\ IF reachable
                 THEN client' = c /\ UNCHANGED connected
                 ELSE connected' = FALSE /\ UNCHANGED client
  /\ UNCHANGED <<hostInput, host, st, err, loading, pollTicker, tickPending, editing,
                 loop, nEvents, lastKey, apiVars>>

\* a connectCmd that drops the client when its probe has failed
ConnectFinishDropsClient(i) ==
  /\ ops[i].kind = "connect" /\ ops[i].stage = "w"
  /\ ops' = [ops EXCEPT ![i].stage = "msg"]
  /\ IF ops[i].ok
     THEN connected' = TRUE /\ UNCHANGED client
     ELSE client' = NilClient /\ UNCHANGED connected
  /\ UNCHANGED <<hostInput, host, st, err, loading, pollTicker, tickPending, editing,
                 loop, nEvents, lastKey, apiVars>>

\* connectCmd's goroutine, its second write and its message: m.client = client
\* and errorMsg (probe failed), m.connected = true and connectedMsg (succeeded)
ConnectFinish(i) ==
  /\ ops[i].kind = "connect" /\ ops[i].stage = "w"
  /\ ops' = [ops EXCEPT ![i].stage = "msg"]
  /\ IF ops[i].ok
     THEN connected' = TRUE /\ UNCHANGED client
     ELSE client' = newVolumioClient(ops[i].host) /\ UNCHANGED connected
  /\ UNCHANGED <<hostInput, host, st, err, loading, pollTicker, tickPending, editing,
                 loop, nEvents, lastKey, apiVars>>

\* the text a failed command's error carries: cmd names the command it sent,
\* SetVolume says "set volume"
ErrName(o) == IF o.name = "volume" THEN "set volume" ELSE o.name

\* the errors a command's call can end with: a status that is not 2xx
CommandErrs(o) == {StatusErr(ErrName(o), code) : code \in BadStatuses}

\* the errors GetState can end with: a failed transport, a status that is not
\* 2xx, a body that does not decode
RefreshErrs ==
  {StatusErr("getState", code) : code \in BadStatuses}
    \cup {TransportErr("getState"), DecodeErr}

\* the errors the message of o can carry
ErrsOf(o) ==
  IF o.kind = "connect"
  THEN (IF o.ok THEN {} ELSE IF o.name = "url" THEN {UrlErr} ELSE {ConnectErr})
  ELSE IF o.kind = "cmd" THEN CommandErrs(o)
  ELSE IF o.kind = "refresh" THEN RefreshErrs
  ELSE {}

\* ------------------------------------------------------- model.Update
\* the event loop takes messages while it runs
Looping == loop = "running"

\* an Update that takes every key as one of normal mode
InEditingNever == FALSE

\* Update's test of m.editing for a key
InEditing == editing

\* the text input's Update for a key that is neither enter nor esc: a rune is
\* appended, backspace deletes the last token, the arrows leave the value alone
InputUpdate(buf, k) ==
  IF k \in Runes THEN Append(buf, RuneTok(k))
  ELSE IF k = "backspace" /\ buf # <<>> THEN SubSeq(buf, 1, Len(buf) - 1)
  ELSE buf

\* a SaveHost that takes the value untrimmed
CommitValueRaw(buf) == buf

\* SaveHost's value: strings.TrimSpace(m.hostInput.Value())
CommitValue(buf) == TrimSpace(buf)

\* a SaveHost that lets every value through
EmptyValueNever(val) == FALSE

\* SaveHost's test of the value: val == ""
EmptyValue(val) == val = <<>>

\* the poll ticker's check at the end of Update: a waiting tick is taken and
\* refreshCmd's result returned
PollCheck ==
  IF tickPending
  THEN /\ tickPending' = FALSE
       /\ ops' = ops \o refreshCmd("poll")
  ELSE UNCHANGED <<tickPending, ops>>

\* a tea.KeyMsg arrives
KeyPress == Looping /\ Len(ops) < MaxPending /\ Event

\* ops with every connect in it marked as followed by a later one
Superseded ==
  [j \in Started |->
     IF ops[j].kind = "connect" THEN [ops[j] EXCEPT !.late = TRUE] ELSE ops[j]]

\* editing, enter: an empty value returns at once; otherwise the host is set,
\* editing left, and connectCmd and refreshCmd batched
SaveHost ==
  /\ KeyPress /\ InEditing
  /\ lastKey' = "enter"
  /\ LET val == CommitValue(hostInput) IN
       IF EmptyValue(val)
       THEN UNCHANGED <<host, editing, ops>>
       ELSE /\ host' = val
            /\ editing' = FALSE
            /\ ops' = Superseded \o connectCmd("commit", val) \o refreshCmd("commit")
  /\ UNCHANGED <<client, hostInput, st, err, loading, pollTicker, tickPending,
                 connected, loop, apiVars>>

\* editing, esc: editing is left and the input blurred
Cancel ==
  /\ KeyPress /\ InEditing
  /\ lastKey' = "esc"
  /\ editing' = FALSE
  /\ UNCHANGED <<client, hostInput, host, st, err, loading, pollTicker, tickPending,
                 connected, loop, ops, apiVars>>

\* editing, any other key: the key goes to the text input
EditInput(k) ==
  /\ KeyPress /\ InEditing
  /\ lastKey' = k
  /\ k \notin {"enter", "esc"}
  /\ hostInput' = InputUpdate(hostInput, k)
  /\ UNCHANGED <<client, host, st, err, loading, pollTicker, tickPending, editing,
                 connected, loop, ops, apiVars>>

\* normal mode, q: the ticker is stopped if there is one, tea.Quit returned
Quit ==
  /\ KeyPress /\ ~InEditing
  /\ lastKey' = "q"
  /\ pollTicker' = IF pollTicker # "nil" THEN "stopped" ELSE pollTicker
  /\ ops' = Append(ops, Op("quit", "key", <<>>, "quit", -1))
  /\ UNCHANGED <<client, hostInput, host, st, err, loading, tickPending, editing,
                 connected, loop, apiVars>>

\* normal mode, e: editing is entered and the input focused
EditHost ==
  /\ KeyPress /\ ~InEditing
  /\ lastKey' = "e"
  /\ editing' = TRUE
  /\ UNCHANGED <<client, hostInput, host, st, err, loading, pollTicker, tickPending,
                 connected, loop, ops, apiVars>>

\* normal mode, space: toggleCmd
ToggleKey ==
  /\ KeyPress /\ ~InEditing
  /\ lastKey' = " "
  /\ loading' = TRUE
  /\ ops' = ops \o toggleCmd
  /\ UNCHANGED <<client, hostInput, host, st, err, pollTicker, tickPending, editing,
                 connected, loop, apiVars>>

\* normal mode, r: refreshCmd
RefreshKey ==
  /\ KeyPress /\ ~InEditing
  /\ lastKey' = "r"
  /\ loading' = TRUE
  /\ ops' = ops \o refreshCmd("key")
  /\ UNCHANGED <<client, hostInput, host, st, err, pollTicker, tickPending, editing,
                 connected, loop, apiVars>>

\* normal mode, up or down: changeVolume(5) or changeVolume(-5)
VolumeKey(k) ==
  /\ KeyPress /\ ~InEditing
  /\ lastKey' = k
  /\ k \in {"up", "down"}
  /\ loading' = TRUE
  /\ ops' = ops \o changeVolume(DeltaOfKey(k))
  /\ UNCHANGED <<client, hostInput, host, st, err, pollTicker, tickPending, editing,
                 connected, loop, apiVars>>

\* normal mode, a key no binding matches: Update goes on to the ticker's check
UnmatchedKey(k) ==
  /\ KeyPress /\ ~InEditing
  /\ lastKey' = k
  /\ k \in {"enter", "esc", "backspace"}
  /\ PollCheck
  /\ UNCHANGED <<client, hostInput, host, st, err, loading, pollTicker, editing,
                 connected, loop, apiVars>>

\* a message of any other type (the cursor's blink, a focus report): Update
\* goes on to the ticker's check
OtherMsg ==
  /\ Looping
  /\ lastKey' = ""
  /\ tickPending
  /\ PollCheck
  /\ UNCHANGED <<client, hostInput, host, st, err, loading, pollTicker, editing,
                 connected, loop, nEvents, apiVars>>

\* ops with every refresh started before the i-th marked late
MarkLate(i) ==
  [j \in Started |->
     IF j < i /\ ops[j].kind = "refresh" THEN [ops[j] EXCEPT !.late = TRUE] ELSE ops[j]]

\* a refreshMsg case that brings the volume read into 0..100
RefreshMsgClamps(i) ==
  /\ Looping
  /\ lastKey' = ""
  /\ ops[i].kind = "refresh" /\ ops[i].stage = "msg"
  /\ \E s \in Snapshots : st' = [s EXCEPT !.Volume = SetVolume(s.Volume)]
  /\ err' = NoErr
  /\ loading' = FALSE
  /\ ops' = Unmarked(Remove(MarkLate(i), i))
  /\ UNCHANGED <<client, hostInput, host, pollTicker, tickPending, editing, connected,
                 loop, nEvents, apiVars>>

\* refreshMsg: GetState returned a snapshot
RefreshMsg(i) ==
  /\ Looping
  /\ lastKey' = ""
  /\ ops[i].kind = "refresh" /\ ops[i].stage = "msg"
  /\ \E s \in Snapshots : st' = s
  /\ err' = NoErr
  /\ loading' = FALSE
  /\ ops' = Unmarked(Remove(MarkLate(i), i))
  /\ UNCHANGED <<client, hostInput, host, pollTicker, tickPending, editing, connected,
                 loop, nEvents, apiVars>>

\* connectedMsg
ConnectedMsg(i) ==
  /\ Looping
  /\ lastKey' = ""
  /\ ops[i].kind = "connect" /\ ops[i].stage = "msg" /\ ops[i].ok
  /\ loading' = TRUE
  /\ ops' = Unmarked(Remove(ops, i)) \o refreshCmd("connected")
  /\ UNCHANGED <<client, hostInput, host, st, err, pollTicker, tickPending, editing,
                 connected, loop, nEvents, apiVars>>

\* an errorMsg case that also drops the state held
ErrorMsgDropsState(i) ==
  /\ Looping
  /\ lastKey' = ""
  /\ ops[i].stage = "msg"
  /\ \E e \in ErrsOf(ops[i]) : err' = e
  /\ loading' = FALSE
  /\ st' = ZeroState
  /\ ops' = Unmarked(Remove(ops, i))
  /\ UNCHANGED <<client, hostInput, host, pollTicker, tickPending, editing,
                 connected, loop, nEvents, apiVars>>

\* errorMsg
ErrorMsg(i) ==
  /\ Looping
  /\ lastKey' = ""
  /\ ops[i].stage = "msg"
  /\ \E e \in ErrsOf(ops[i]) : err' = e
  /\ loading' = FALSE
  /\ ops' = Unmarked(Remove(ops, i))
  /\ UNCHANGED <<client, hostInput, host, st, pollTicker, tickPending, editing,
                 connected, loop, nEvents, apiVars>>

\* the two commands simpleCmd batches after a successful call: refreshCmd, and
\* the tick that runs refreshCmd when 500 ms have passed
AfterCommand ==
  <<Op("refresh", "chain", <<>>, "getState", -1),
    Op("refresh", "delayed", <<>>, "getState", -1)>>

\* the tea.BatchMsg of a successful command: the loop starts its commands
BatchMsg(i) ==
  /\ Looping
  /\ lastKey' = ""
  /\ ops[i].kind = "cmd" /\ ops[i].stage = "msg"
  /\ ops' = Unmarked(Remove(ops, i)) \o AfterCommand
  /\ UNCHANGED <<client, hostInput, host, st, err, loading, pollTicker, tickPending,
                 editing, connected, loop, nEvents, apiVars>>

\* tea.QuitMsg: the loop ends
QuitMsg(i) ==
  /\ Looping
  /\ lastKey' = ""
  /\ ops[i].kind = "quit" /\ ops[i].stage = "msg"
  /\ loop' = "done"
  /\ ops' = Unmarked(Remove(ops, i))
  /\ UNCHANGED <<client, hostInput, host, st, err, loading, pollTicker, tickPending,
                 editing, connected, nEvents, apiVars>>

\* ------------------------------------------------------ specification
KeyMsg ==
  \/ SaveHost
  \/ Cancel
  \/ \E k \in Keys : EditInput(k)
  \/ Quit
  \/ EditHost
  \/ ToggleKey
  \/ RefreshKey
  \/ \E k \in Keys : VolumeKey(k)
  \/ \E k \in Keys : UnmatchedKey(k)

Goroutine ==
  \/ StartPolling
  \/ TimerFire
  \/ \E i \in Started : ConnectProbe(i)
  \/ \E i \in Started : ConnectFinish(i)

Message ==
  \/ \E i \in Started : RefreshMsg(i)
  \/ \E i \in Started : ConnectedMsg(i)
  \/ \E i \in Started : ErrorMsg(i)
  \/ \E i \in Started : BatchMsg(i)
  \/ \E i \in Started : QuitMsg(i)

Next == KeyMsg \/ Goroutine \/ Message \/ OtherMsg

Spec == Init /\ [][Next]_vars

\* the loop takes the messages that wait for it and the goroutines run; no
\* key has to be pressed and no message of another type has to arrive
FairSpec == Spec /\ WF_vars(Goroutine) /\ WF_vars(Message)

\* ------------------------------------------- SetVolume called on its own
\* the client's SetVolume is called with any volume
InitSetVolume ==
  /\ host = <<UrlTok>>
  /\ hostInput = host
  /\ client = newVolumioClient(host)
  /\ st = ZeroState
  /\ err = NoErr
  /\ loading = FALSE
  /\ pollTicker = "running"
  /\ tickPending = FALSE
  /\ editing = FALSE
  /\ connected = TRUE
  /\ loop = "running"
  /\ ops = <<>>
  /\ nEvents = 0
  /\ lastKey = ""
  /\ apiVol \in (VolMin - VolSpan)..(VolMax + VolSpan)
  /\ apiSent = -1
  /\ apiCmd = NoCmd
  /\ apiErr = NoReturn
  /\ callArg = <<>>
  /\ callRes = NoReturn

\* the call builds its request
CallSetVolume ==
  /\ apiSent = -1
  /\ apiSent' = SetVolume(apiVol)
  /\ UNCHANGED <<modelVars, apiVol, apiCmd, apiErr, callArg, callRes>>

SpecSetVolume == InitSetVolume /\ [][CallSetVolume]_vars

\* ------------------------------------ a transport command called on its own
\* the statuses a response can carry
Statuses == 100..599

\* a command of the client is called and the player answers with any status
InitCommandStatus ==
  /\ host = <<UrlTok>>
  /\ hostInput = host
  /\ client = newVolumioClient(host)
  /\ st = ZeroState
  /\ err = NoErr
  /\ loading = FALSE
  /\ pollTicker = "running"
  /\ tickPending = FALSE
  /\ editing = FALSE
  /\ connected = TRUE
  /\ loop = "running"
  /\ ops = <<>>
  /\ nEvents = 0
  /\ lastKey = ""
  /\ apiVol = 0
  /\ apiSent = -1
  /\ apiCmd \in [name : Commands, status : Statuses]
  /\ apiErr = NoReturn
  /\ callArg = <<>>
  /\ callRes = NoReturn

\* the call returns
CallCommand ==
  /\ apiErr = NoReturn
  /\ apiErr' = CommandStatus(apiCmd.name, apiCmd.status)
  /\ UNCHANGED <<modelVars, apiVol, apiSent, apiCmd, callArg, callRes>>

SpecCommandStatus == InitCommandStatus /\ [][CallCommand]_vars

\* -------------------------------------------- probeHost called on its own
\* The host part of the URL probed: a hostname (or IPv4 address) or an IPv6
\* literal in brackets, with the port stated, 0 when none is.
ProbePorts == {80, 3000, 8080}
UrlHosts == [v6 : BOOLEAN, port : ProbePorts \cup {0}]

\* strings.Contains(host, ":"): a port is stated, or the literal has colons
HostHasColon(h) == h.v6 \/ h.port # 0

\* the address of the first dial: u.Host, with ":80" added when it holds no colon
FirstDial(h) ==
  [v6 |-> h.v6, bracketed |-> h.v6,
   port |-> IF HostHasColon(h) THEN h.port ELSE 80]

\* the address of the second dial: u.Hostname(), which drops the brackets, and ":3000"
SecondDial(h) == [v6 |-> h.v6, bracketed |-> FALSE, port |-> 3000]

\* Dialer.DialContext: the address must split into host and port (an IPv6
\* literal only in brackets, a port present), and the port must accept
DialContext(a, open) ==
  /\ a.port # 0
  /\ a.v6 => a.bracketed
  /\ a.port \in open

\* probeHost: nil, or the error of the first dial
probeHost(h, open) ==
  IF DialContext(FirstDial(h), open) THEN [ok |-> TRUE, err |-> "nil"]
  ELSE IF DialContext(SecondDial(h), open) THEN [ok |-> TRUE, err |-> "nil"]
  ELSE [ok |-> FALSE, err |-> "first"]

\* a host is probed while any set of its ports accepts connections
InitProbe ==
  /\ host = <<UrlTok>>
  /\ hostInput = host
  /\ client = newVolumioClient(host)
  /\ st = ZeroState
  /\ err = NoErr
  /\ loading = FALSE
  /\ pollTicker = "running"
  /\ tickPending = FALSE
  /\ editing = FALSE
  /\ connected = FALSE
  /\ loop = "running"
  /\ ops = <<>>
  /\ nEvents = 0
  /\ lastKey = ""
  /\ apiVol = 0
  /\ apiSent = -1
  /\ apiCmd = NoCmd
  /\ apiErr = NoReturn
  /\ callArg \in [host : UrlHosts, open : SUBSET ProbePorts]
  /\ callRes = NoReturn

\* the probe returns
CallProbe ==
  /\ callRes = NoReturn
  /\ callRes' = probeHost(callArg.host, callArg.open)
  /\ UNCHANGED <<modelVars, apiVol, apiSent, apiCmd, apiErr, callArg>>

SpecProbe == InitProbe /\ [][CallProbe]_vars

\* --------------------------------------- getDefaultHost called on its own
\* The values of the environment are texts of tokens: a scheme with its
\* delimiter, a host, a port with its colon, blanks.
SchemeToks == {"http://", "https://"}
PortToks == {":3000", ":8080"}
HostToks == {"volumio", "192.168.1.10", "[fe80::1]"}
\* the tokens that hold a colon
ColonToks == SchemeToks \cup PortToks \cup {"[fe80::1]"}

\* the values VOLUMIO_HOST is given: unset, or a host with or without scheme
\* and port
HostEnvs ==
  {<<>>} \cup
  {sch \o <<h>> \o prt : sch \in {<<>>} \cup {<<t>> : t \in SchemeToks},
                         h \in HostToks,
                         prt \in {<<>>} \cup {<<t>> : t \in PortToks}}
\* the values VOLUMIO_URL is given: unset, blank, or a URL in blanks
UrlEnvs == {<<>>, <<" ">>, <<" ", "http://", "volumio", ":3000", " ">>}

\* strings.Contains(v, "://")
ContainsSchemeDelim(v) == \E j \in 1..Len(v) : v[j] \in SchemeToks
\* strings.Contains(v, ":")
ContainsColon(v) == \E j \in 1..Len(v) : v[j] \in ColonToks

\* the address discoverVolumio returns
Discovered == <<"http://", "192.168.1.10", ":3000">>

\* getDefaultHost
getDefaultHost(env) ==
  IF TrimSpace(env.url) # <<>> THEN TrimSpace(env.url)
  ELSE IF TrimSpace(env.host) # <<>>
  THEN LET v == TrimSpace(env.host)
           v1 == IF ~ContainsSchemeDelim(v) THEN <<"http://">> \o v ELSE v
       IN  IF ~ContainsColon(v1) THEN v1 \o <<":3000">> ELSE v1
  ELSE Discovered

\* the program is started in any environment
InitDefaultHost ==
  /\ host = <<UrlTok>>
  /\ hostInput = host
  /\ client = NilClient
  /\ st = ZeroState
  /\ err = NoErr
  /\ loading = FALSE
  /\ pollTicker = "nil"
  /\ tickPending = FALSE
  /\ editing = FALSE
  /\ connected = FALSE
  /\ loop = "running"
  /\ ops = <<>>
  /\ nEvents = 0
  /\ lastKey = ""
  /\ apiVol = 0
  /\ apiSent = -1
  /\ apiCmd = NoCmd
  /\ apiErr = NoReturn
  /\ callArg \in [url : UrlEnvs, host : HostEnvs]
  /\ callRes = NoReturn

\* getDefaultHost returns
CallDefaultHost ==
  /\ callRes = NoReturn
  /\ callRes' = [value |-> getDefaultHost(callArg)]
  /\ UNCHANGED <<modelVars, apiVol, apiSent, apiCmd, apiErr, callArg>>

SpecDefaultHost == InitDefaultHost /\ [][CallDefaultHost]_vars

\* -------------------------------------- discoverVolumio called on its own
\* at most this many advertisements arrive
MaxEntries == 2

\* a zeroconf.ServiceEntry: its IPv4 addresses, its IPv6 addresses, its host
\* name (a text of tokens, "." the trailing dot) and its port
Entries ==
  [AddrIPv4 : {<<>>, <<"10.0.0.1">>, <<"10.0.0.2", "10.0.0.1">>},
   AddrIPv6 : {<<>>, <<"fe80::1">>},
   HostName : {<<>>, <<"volumio.local">>, <<"volumio.local", ".">>},
   Port : {0, 3000}]

\* the advertisements that arrive, in their order
EntrySeqs == UNION {[1..n -> Entries] : n \in 1..MaxEntries}

\* strings.TrimSuffix(name, ".")
TrimSuffixDot(name) ==
  IF name # <<>> /\ name[Len(name)] = "." THEN SubSeq(name, 1, Len(name) - 1) ELSE name

\* the host the goroutine takes from an entry, <<>> when it finds none
EntryHost(e) ==
  IF Len(e.AddrIPv4) > 0 THEN <<e.AddrIPv4[1]>>
  ELSE IF Len(e.AddrIPv6) > 0 THEN <<"[", e.AddrIPv6[1], "]">>
  ELSE IF e.HostName # <<>> THEN TrimSuffixDot(e.HostName)
  ELSE <<>>

\* net.JoinHostPort: a host that holds a colon is put in brackets
JoinHostPort(h, port) ==
  IF \E j \in 1..Len(h) : h[j] = "fe80::1"
  THEN <<"[">> \o h \o <<"]", ":", port>>
  ELSE h \o <<":", port>>

RECURSIVE discoverVolumio(_)
\* discoverVolumio: the address of the first entry with a host and a port,
\* <<>> when the time runs out with none
discoverVolumio(es) ==
  IF es = <<>> THEN <<>>
  ELSE IF EntryHost(Head(es)) = <<>> \/ Head(es).Port = 0
  THEN discoverVolumio(Tail(es))
  ELSE <<"http://">> \o JoinHostPort(EntryHost(Head(es)), Head(es).Port)

\* discovery runs and any advertisements arrive
InitDiscover ==
  /\ host = <<UrlTok>>
  /\ hostInput = host
  /\ client = NilClient
  /\ st = ZeroState
  /\ err = NoErr
  /\ loading = FALSE
  /\ pollTicker = "nil"
  /\ tickPending = FALSE
  /\ editing = FALSE
  /\ connected = FALSE
  /\ loop = "running"
  /\ ops = <<>>
  /\ nEvents = 0
  /\ lastKey = ""
  /\ apiVol = 0
  /\ apiSent = -1
  /\ apiCmd = NoCmd
  /\ apiErr = NoReturn
  /\ callArg \in EntrySeqs
  /\ callRes = NoReturn

\* discoverVolumio returns
CallDiscover ==
  /\ callRes = NoReturn
  /\ callRes' = [value |-> discoverVolumio(callArg)]
  /\ UNCHANGED <<modelVars, apiVol, apiSent, apiCmd, apiErr, callArg>>

SpecDiscover == InitDiscover /\ [][CallDiscover]_vars

\* ============================================================ properties

\* C1: after any transport command completes, whether it succeeded or failed,
\* exactly two refresh attempts follow: one at once and one after the delay.
C1_TwoRefreshesAfterAnyCommand ==
  [][\A i \in Started :
       (ops[i].kind = "cmd" /\ (BatchMsg(i) \/ ErrorMsg(i)))
       => /\ Len(ops') = Len(ops) + 1
          /\ ops'[Len(ops') - 1].kind = "refresh"
          /\ ops'[Len(ops') - 1].src = "chain"
          /\ ops'[Len(ops')].kind = "refresh"
          /\ ops'[Len(ops')].src = "delayed"]_vars

\* C2: the result of a refresh is never applied once the result of a refresh
\* dispatched after it has been applied, so that the state shown is always that
\* of the most recently dispatched refresh that has completed.
C2_NoStaleRefreshApplied ==
  [][\A i \in Started : RefreshMsg(i) => ~ops[i].late]_vars

\* C3: SetVolume puts 0 in its request for a volume below 0, 100 for a volume
\* above 100, and the volume itself otherwise.
C3_SetVolumeClamps ==
  apiSent # -1 =>
    /\ apiVol < 0 => apiSent = 0
    /\ apiVol > 100 => apiSent = 100
    /\ (apiVol >= 0 /\ apiVol <= 100) => apiSent = apiVol

\* C3: a volume above 100 has been requested as 100
C3_Witness == apiVol = 150 /\ apiSent = 100

\* C4: a volume key pressed in normal mode while a client exists dispatches
\* one volume command whose volume is min(100, max(0, volume + delta)), with
\* the volume of the state held when the key is pressed and delta +5 or -5.
C4_VolumeFromCurrentState ==
  [][\A k \in {"up", "down"} :
       (VolumeKey(k) /\ client # NilClient)
       => LET sum == st.Volume + (IF k = "up" THEN 5 ELSE -5)
              want == IF sum < 0 THEN 0 ELSE IF sum > 100 THEN 100 ELSE sum
              o == ops'[Len(ops')]
          IN  /\ Len(ops') = Len(ops) + 1
              /\ SubSeq(ops', 1, Len(ops)) = ops
              /\ o.kind = "cmd" /\ o.name = "volume"
              /\ o.vol = want
              /\ o.sent = want]_vars

\* C4: volume up at volume 98 has requested 100
C4_Witness ==
  /\ lastKey = "up"
  /\ st.Volume = 98
  /\ ops # <<>>
  /\ ops[Len(ops)].name = "volume"
  /\ ops[Len(ops)].sent = 100

\* C5: every tick of the poll ticker leads to a refresh being dispatched while
\* the program runs, in whatever mode the program is and with no key pressed;
\* stated for the ticks that find a client, the only ones a refresh can be
\* dispatched for.
C5_TickLeadsToRefresh ==
  (tickPending /\ loop = "running" /\ client # NilClient)
    ~> ((\E i \in Started : ops[i].src = "poll") \/ loop = "done")

C7_CommitConnectsAndRefreshes ==
  [][(editing /\ SaveHost /\ \E j \in 1..Len(hostInput) : hostInput[j] # " ")
       => LET nb == {j \in 1..Len(hostInput) : hostInput[j] # " "}
              lo == CHOOSE j \in nb : \A m \in nb : j <= m
              hi == CHOOSE j \in nb : \A m \in nb : j >= m
          IN  /\ ~editing'
              /\ host' = SubSeq(hostInput, lo, hi)
              /\ Len(ops') = Len(ops) + 2
              /\ \A j \in Started : [ops'[j] EXCEPT !.late = ops[j].late] = ops[j]
              /\ ops'[Len(ops) + 1].kind = "connect"
              /\ ops'[Len(ops) + 1].host = host'
              /\ ops'[Len(ops) + 2].kind = "refresh"]_vars

\* C7: committing a buffer that is not blank leaves editing mode, makes the
\* trimmed buffer the host, and dispatches a connect to the new host; a
\* refresh is dispatched with it exactly when a client exists at the commit.
C7_CommitRefreshesOnlyWithClient ==
  [][(editing /\ SaveHost /\ \E j \in 1..Len(hostInput) : hostInput[j] # " ")
       => LET nb == {j \in 1..Len(hostInput) : hostInput[j] # " "}
              lo == CHOOSE j \in nb : \A m \in nb : j <= m
              hi == CHOOSE j \in nb : \A m \in nb : j >= m
              n == IF client # NilClient THEN 2 ELSE 1
          IN  /\ ~editing'
              /\ host' = SubSeq(hostInput, lo, hi)
              /\ Len(ops') = Len(ops) + n
              /\ \A j \in Started : [ops'[j] EXCEPT !.late = ops[j].late] = ops[j]
              /\ ops'[Len(ops) + 1].kind = "connect"
              /\ ops'[Len(ops) + 1].stage = "run"
              /\ ops'[Len(ops) + 1].host = host'
              /\ client # NilClient => ops'[Len(ops) + 2].kind = "refresh"]_vars

\* C7: a buffer with a blank at its end has just been committed while a
\* client exists, and the connect and the refresh are on their way
C7_Witness ==
  /\ lastKey = "enter"
  /\ ~editing
  /\ client # NilClient
  /\ hostInput = <<UrlTok, " ">>
  /\ host = <<UrlTok>>
  /\ Len(ops) >= 2
  /\ ops[Len(ops) - 1].kind = "connect"
  /\ ops[Len(ops) - 1].src = "commit"
  /\ ops[Len(ops)].kind = "refresh"
  /\ ops[Len(ops)].src = "commit"

\* C8: cancelling leaves editing mode, changes nothing of the connection, and
\* discards the buffer: what was typed is gone, the buffer being empty or the
\* host again.
C8_CancelDiscardsBuffer ==
  [][(editing /\ Cancel)
       => /\ ~editing'
          /\ UNCHANGED <<host, connected, client, st, err, loading, ops>>
          /\ hostInput' \in {<<>>, host}]_vars

\* C9: in editing mode a key that is neither commit nor cancel only edits the
\* buffer: no command, refresh or quit is dispatched, and the mode, the host
\* and the connection stay as they are.
C9_EditingKeysOnlyEdit ==
  [][(editing /\ KeyMsg /\ lastKey' \notin {"enter", "esc"})
       => UNCHANGED <<client, host, st, err, loading, pollTicker, tickPending,
                      editing, connected, loop, ops>>]_vars

\* C9: the key bound to quit has just been typed into the buffer
C9_Witness ==
  /\ lastKey = "q"
  /\ editing
  /\ loop = "running"
  /\ hostInput # <<>>
  /\ hostInput[Len(hostInput)] = "x"

\* C10: when the success of a probe is applied, the session is connected, its
\* error is cleared, and a refresh is dispatched.
C10_ConnectedClearsError ==
  [][\A i \in Started :
       ConnectedMsg(i)
       => /\ connected'
          /\ err' = NoErr
          /\ ops' # <<>>
          /\ ops'[Len(ops')].kind = "refresh"]_vars

\* C11: when the failure of a connect attempt is applied, the session is not
\* connected, its error is set, and it holds a client for the address that
\* was tried, whatever happened before the attempt.
C11_FailedConnectKeepsClient ==
  [][\A i \in Started :
       (ops[i].kind = "connect" /\ ErrorMsg(i))
       => /\ ~connected'
          /\ err' # NoErr
          /\ client' # NilClient
          /\ client' = ops[i].host]_vars

\* C12: when the failure of a refresh is applied (a failed transport, a status
\* that is not 2xx, a body that does not decode), the error is set to it and
\* loading becomes false, while the state held and the connected flag stay as
\* they were.
C12_FailedRefreshKeepsState ==
  [][\A i \in Started :
       (ops[i].kind = "refresh" /\ ErrorMsg(i))
       => /\ err' # NoErr
          /\ err'.name = "getState"
          /\ err'.type \in {"transport", "status", "decode"}
          /\ ~loading'
          /\ st' = st
          /\ connected' = connected]_vars

\* C12: a refresh has failed on the transport after a snapshot was applied,
\* and the snapshot is still held
C12_Witness ==
  /\ err = [type |-> "transport", name |-> "getState", code |-> 0]
  /\ ~loading
  /\ st = [Status |-> "play", Volume |-> 98]
  /\ connected

\* C13: when the success of a refresh is applied, the state held becomes a
\* snapshot as the player reported it, a volume outside 0..100 included, the
\* error is cleared and loading becomes false.
C13_RefreshReplacesState ==
  [][\A i \in Started :
       RefreshMsg(i)
       => /\ st' \in {[Status |-> "play", Volume |-> 98],
                      [Status |-> "pause", Volume |-> 150]}
          /\ err' = NoErr
          /\ ~loading'
          /\ UNCHANGED <<client, connected, host, editing>>]_vars

\* C13: the snapshot with volume 150 has been applied and is held as reported
C13_Witness ==
  /\ st = [Status |-> "pause", Volume |-> 150]
  /\ err = NoErr
  /\ ~loading
  /\ lastKey = ""

\* C14: a transport command answered with a status that is not 2xx returns an
\* error that names the command (the command sent for play, pause, stop and
\* toggle, "set volume" for the volume) and carries the status; a 2xx status
\* returns no error.
C14_StatusErrorNamesCommand ==
  apiErr # NoReturn =>
    IF apiCmd.status >= 200 /\ apiCmd.status <= 299
    THEN apiErr = NoErr
    ELSE /\ apiErr.type = "status"
         /\ apiErr.code = apiCmd.status
         /\ apiErr.name =
              (IF apiCmd.name = "volume" THEN "set volume" ELSE apiCmd.name)

\* C14: stop was answered with status 404 and the error says so
C14_Witness ==
  /\ apiCmd = [name |-> "stop", status |-> 404]
  /\ apiErr = [type |-> "status", name |-> "stop", code |-> 404]

\* C15: once quit has been requested (the quit key has been handled), nothing
\* changes the connected flag, the client, the state held or the error any
\* more, whatever was in flight at that moment.
C15_NothingChangesAfterQuit ==
  [][(loop = "done" \/ \E i \in Started : ops[i].kind = "quit")
       => UNCHANGED <<connected, client, st, err>>]_vars

\* C16: the probe succeeds exactly when the host accepts a connection on its
\* stated port (80 when none is stated) or on port 3000, and when neither
\* does it returns the failure of the first attempt.
C16_ProbeFallsBackTo3000 ==
  callRes # NoReturn =>
    LET stated == IF callArg.host.port = 0 THEN 80 ELSE callArg.host.port
    IN  /\ callRes.ok <=> (stated \in callArg.open \/ 3000 \in callArg.open)
        /\ ~callRes.ok => callRes.err = "first"

\* C17: with VOLUMIO_URL unset or blank, a VOLUMIO_HOST value becomes the
\* initial address with "http://" put in front when it has no scheme and
\* ":3000" put behind when it names no port.
C17_HostEnvNormalized ==
  (callRes # NoReturn /\ callArg.url \in {<<>>, <<" ">>} /\ callArg.host # <<>>)
    => LET v == callArg.host
       IN  callRes.value =
             (IF v[1] \in {"http://", "https://"} THEN <<>> ELSE <<"http://">>)
               \o v
               \o (IF v[Len(v)] \in {":3000", ":8080"} THEN <<>> ELSE <<":3000">>)

\* C18: discovery returns the address of the first advertisement that has a
\* host and a port: "http://", then the first IPv4 address if there is one,
\* else the first IPv6 address in one pair of brackets, else the host name
\* without its trailing dot, then the port.
C18_DiscoveryPrefersIPv4 ==
  callRes # NoReturn =>
    LET usable == {j \in 1..Len(callArg) :
                     /\ callArg[j].Port # 0
                     /\ \/ callArg[j].AddrIPv4 # <<>>
                        \/ callArg[j].AddrIPv6 # <<>>
                        \/ callArg[j].HostName # <<>>}
    IN  usable # {} =>
          LET e == callArg[CHOOSE j \in usable : \A m \in usable : j <= m]
              n == e.HostName
              h == IF e.AddrIPv4 # <<>> THEN <<e.AddrIPv4[1]>>
                   ELSE IF e.AddrIPv6 # <<>> THEN <<"[", e.AddrIPv6[1], "]">>
                   ELSE IF n[Len(n)] = "." THEN SubSeq(n, 1, Len(n) - 1)
                   ELSE n
          IN  callRes.value = <<"http://">> \o h \o <<":", e.Port>>

\* C19: the fields of the session (connected, client, ticker, state, error,
\* loading, editing, host) change only in a step of Update, that is while the
\* event loop handles a key or another message; no goroutine of a command
\* writes them.
C19_OnlyUpdateWritesSession ==
  [][(<<connected, client, pollTicker, st, err, loading, editing, host>>'
        # <<connected, client, pollTicker, st, err, loading, editing, host>>)
       => (KeyMsg \/ Message \/ OtherMsg)]_vars

\* C20: when every connect attempt in flight has completed and the result of
\* the most recently started one, which ran a probe, still waits for the loop,
\* connected is the outcome of that probe.
C20_ConnectedIsLatestProbe ==
  (\A i \in Started : ops[i].kind = "connect" => ops[i].stage = "msg")
    => \A i \in Started :
         (ops[i].kind = "connect" /\ ~ops[i].late /\ ops[i].name # "url")
         => connected = ops[i].ok

\* C21: loading is true in every state in which a connect, a command or a
\* refresh has been started and its result has not been handled yet.
C21_LoadingWhileInFlight ==
  (\E i \in Started : ops[i].kind \in {"connect", "cmd", "refresh"}) => loading

\* C22: whenever a command key or the refresh key has just set loading in
\* normal mode, loading becomes false again with no key pressed, unless the
\* program is quit first.
C22_LoadingEnds ==
  (loading /\ ~editing /\ lastKey \in {" ", "r", "up", "down"})
    ~> (~loading \/ loop = "done" \/ \E i \in Started : ops[i].kind = "quit")

\* C23: whenever a key makes the program start a command or a refresh (the
\* refresh of a commit included), the client it is started with was built
\* from the host the session holds after that key.
C23_OperationsUseCurrentHost ==
  [][((SaveHost \/ ToggleKey \/ RefreshKey \/ \E k \in {"up", "down"} : VolumeKey(k))
        /\ Len(ops') > Len(ops)
        /\ ops'[Len(ops')].kind \in {"cmd", "refresh"})
       => client' = host']_vars

\* C24: once a client is set it stays set, and whenever a command or a
\* refresh is in flight (the delayed refresh after a command included) a
\* client is present for it.
C24_ClientStaysSet ==
  [][/\ client # NilClient => client' # NilClient
     /\ \A i \in 1..Len(ops') :
          ops'[i].kind \in {"cmd", "refresh"} => client' # NilClient]_vars

\* C24: the delayed refresh after a command has been started and finds a
\* client
C24_Witness ==
  /\ client # NilClient
  /\ \E i \in Started : ops[i].kind = "refresh" /\ ops[i].src = "delayed"

====
